---- MODULE Spec2Model ----
(***************************************************************************)
(* researchify-backend (src/main.py): a FastAPI layer over a Firestore     *)
(* document store and the Firebase identity provider.  Every route handler *)
(* is a short sequence of calls to those two services.  The model runs     *)
(* each request in a slot: Call admits a request, the handler's actions    *)
(* take it from one store call to the next (each store call is one atomic  *)
(* step and may raise; a call that raises leaves the service as it was),   *)
(* and Respond hands the response back.                                    *)
(***************************************************************************)
EXTENDS Integers, Sequences, FiniteSets, TLC

VARIABLES
    auth,               \* identity provider: uid -> email of the account
    users,              \* collection "users": uid -> document
    research_listings,  \* collection "research_listings": id -> document
    applications,       \* collection "applications": id -> document
    nextId,             \* identifiers issued so far by the provider / per collection
    req,                \* slot -> the request in flight there
    created             \* history: listing id -> the payload its creator sent, while
                        \* that client has sent no update or delete of it since

vars == <<auth, users, research_listings, applications, nextId, req, created>>
store == <<auth, users, research_listings, applications, nextId>>

(***************************************************************************)
(* Bounds of the model.                                                    *)
(***************************************************************************)
MaxUsers == 2       \* accounts the identity provider issues
MaxListings == 2    \* identifiers the store issues in research_listings
MaxApps == 3        \* identifiers the store issues in applications

\* Identifiers are strings: the provider's uid, the store's auto-ids.
Uid(n) == "u" \o ToString(n)
ListingId(n) == "L" \o ToString(n)
AppId(n) == "A" \o ToString(n)
UserIds == {Uid(n) : n \in 1..MaxUsers}
ListingIds == {ListingId(n) : n \in 1..MaxListings}
AppIds == {AppId(n) : n \in 1..MaxApps}
Slots == {1, 2}

(***************************************************************************)
(* Python's Optional: None is the empty tuple, a value v is <<v>>.         *)
(***************************************************************************)
None == <<>>
Some(v) == <<v>>

(***************************************************************************)
(* HTTP statuses.  Unhandled is what FastAPI answers when a handler lets   *)
(* an exception escape (no HTTPException raised for it).                   *)
(***************************************************************************)
OK == 200
BadRequest == 400
Unauthorized == 401
Forbidden == 403
NotFound == 404
Unhandled == 500

(***************************************************************************)
(* Firestore / Firebase Auth primitives, as the handlers use them.         *)
(***************************************************************************)
\* doc_ref.get().exists
DocExists(coll, id) == id \in DOMAIN coll

\* doc_ref.set(data) and collection.add(data) under a fresh id: create or overwrite
DocSet(coll, id, data) ==
    [x \in DOMAIN coll \cup {id} |-> IF x = id THEN data ELSE coll[x]]

\* doc_ref.update(data): merge the given fields into the stored document
\*   (faulty variant: the given fields replace the document)
DocUpdateNoMerge(coll, id, data) == [coll EXCEPT ![id] = data]
DocUpdate(coll, id, data) == [coll EXCEPT ![id] = data @@ @]

\* doc_ref.delete(): the document is gone afterwards; deleting an absent one is no error
\*   (faulty variant: the document stays)
DocDeleteNoop(coll, id) == coll
DocDelete(coll, id) == [x \in DOMAIN coll \ {id} |-> coll[x]]

\* {"id": doc.id, **doc.to_dict()}
\*   (faulty variant: the id is left out)
WithoutId(id, doc) == doc
WithId(id, doc) == doc @@ [id |-> id]

\* [{"id": doc.id, **doc.to_dict()} for doc in collection.stream()]
StreamAll(coll) == {WithId(id, coll[id]) : id \in DOMAIN coll}

\* collection.where(field, "==", value).stream(), each with its id
\*   (faulty variant: the filter is dropped)
WhereAny(coll, field, value) == StreamAll(coll)
Where(coll, field, value) ==
    {WithId(id, coll[id]) : id \in {x \in DOMAIN coll : coll[x][field] = value}}

\* the emails that already have an account (auth.create_user refuses a duplicate)
EmailsInUse == {auth[u] : u \in DOMAIN auth}

(***************************************************************************)
(* Requests.                                                               *)
(***************************************************************************)
Idle == [op |-> "idle"]

\* what a request can observe of the services when it is admitted
Store == [auth |-> auth, users |-> users,
          research_listings |-> research_listings, applications |-> applications]

NewReq(r) == [op |-> r.op, arg |-> r.arg, pc |-> "start", status |-> 0,
              body |-> None, uid |-> "", raised |-> FALSE, pre |-> Store]

At(s, op, pc) == req[s].op = op /\ req[s].pc = pc

\* return / raise HTTPException: the handler ends with this status and body
Finish(s, status, body) ==
    req' = [req EXCEPT ![s] = [@ EXCEPT !.pc = "done", !.status = status, !.body = body]]

\* a store or provider call raised: the handler ends with this status
Raise(s, status) ==
    req' = [req EXCEPT ![s] = [@ EXCEPT !.pc = "done", !.status = status, !.raised = TRUE]]

Goto(s, pc) == req' = [req EXCEPT ![s].pc = pc]

\* Identifiers are issued once; the counters are capped by the bounds: a request
\* that will draw an identifier is admitted only while one is left for it.
Pending(op) == Cardinality({s \in Slots : req[s].op = op /\ req[s].pc # "done"})
Admissible(r) ==
    /\ r.op = "signup" => nextId.users + Pending("signup") < MaxUsers
    /\ r.op = "create_listing" =>
            nextId.research_listings + Pending("create_listing") < MaxListings
    /\ r.op = "apply_to_listing" =>
            nextId.applications + Pending("apply_to_listing") < MaxApps

\* a client sends request r, one of R, and FastAPI dispatches it to its handler
Call(s, R) ==
    /\ req[s] = Idle
    /\ \E r \in R : Admissible(r) /\ req' = [req EXCEPT ![s] = NewReq(r)]
    /\ UNCHANGED <<store, created>>

\* the response reaches the client; with `track` the history variable follows it
Respond(s, track) ==
    /\ req[s] # Idle
    /\ req[s].pc = "done"
    /\ req' = [req EXCEPT ![s] = Idle]
    /\ created' =
          IF ~track THEN created
          ELSE IF req[s].op = "create_listing" /\ req[s].status = OK
               THEN DocSet(created, req[s].body.listing_id, req[s].arg.listing)
          ELSE IF req[s].op \in {"update_listing", "delete_listing"}
               THEN DocDelete(created, req[s].arg.listing_id)
          ELSE created
    /\ UNCHANGED store

(***************************************************************************)
(* Signup: the model of lines 17-22 and the route of lines 41-54.          *)
(***************************************************************************)
Emails == {"a@x.edu", "b@x.edu", "c@x.edu"}
Passwords == {"secret1"}
Names == {"Ann", "Bob"}
Roles == {"student", "professor", "Professor"}   \* free text: nothing validates it
InterestVals == {<<>>, <<"ml">>}

\* UserSignup
UserSignup ==
    [email : Emails, password : Passwords, name : Names, role : Roles,
     research_interests : InterestVals]

\* user_data: the profile document, which leaves the password out
\*   (faulty variant: the whole payload is stored)
UserDataWithPassword(user) ==
    [name |-> user.name, email |-> user.email, role |-> user.role,
     research_interests |-> user.research_interests, password |-> user.password]
UserData(user) ==
    [name |-> user.name, email |-> user.email, role |-> user.role,
     research_interests |-> user.research_interests]

\* the key of the profile document: user_record.uid
\*   (faulty variant: keyed by the email)
UserDocKeyEmail(user, uid) == user.email
UserDocKey(user, uid) == uid

\* POST /signup
signup(s) ==
    LET user == req[s].arg.user
    IN  \/ /\ At(s, "signup", "start")
           /\ \/ /\ user.email \notin EmailsInUse
                 /\ LET uid == Uid(nextId.users + 1)
                    IN  /\ auth' = DocSet(auth, uid, user.email)
                        /\ nextId' = [nextId EXCEPT !.users = @ + 1]
                        /\ req' = [req EXCEPT ![s] = [@ EXCEPT !.pc = "set", !.uid = uid]]
                 /\ UNCHANGED <<users, research_listings, applications, created>>
              \/ /\ Raise(s, BadRequest)
                 /\ UNCHANGED <<store, created>>
        \/ /\ At(s, "signup", "set")
           /\ \/ /\ users' = DocSet(users, UserDocKey(user, req[s].uid), UserData(user))
                 /\ Finish(s, OK, [uid |-> req[s].uid])
              \/ /\ Raise(s, BadRequest)
                 /\ UNCHANGED users
           /\ UNCHANGED <<auth, research_listings, applications, nextId, created>>

(***************************************************************************)
(* Research listings: the models of lines 25-38 and their payloads.        *)
(***************************************************************************)
ListingFields == {"title", "description", "professor_id", "eligibility", "tags"}

TitleVals == {"AI Research", "Bio Lab"}
DescriptionVals == {"d1"}
ProfessorIds == {"u1", "u2"}
EligibilityVals == {<<"senior">>}
TagsVals == {<<>>, <<"ml">>}

\* ResearchListing: every field required
ResearchListing ==
    [title : TitleVals, description : DescriptionVals, professor_id : ProfessorIds,
     eligibility : EligibilityVals, tags : TagsVals]

\* One field of a ResearchListingUpdate body: left out, sent as null, or sent with a value
Opt(V) == {<<"unset">>, <<"null">>} \cup {<<"value", v>> : v \in V}

\* ResearchListingUpdate: every field Optional, default None
ResearchListingUpdate ==
    [title : Opt(TitleVals), description : Opt(DescriptionVals),
     professor_id : Opt(ProfessorIds), eligibility : Opt(EligibilityVals),
     tags : Opt(TagsVals)]

\* listing.dict(exclude_unset=True): the fields the body set, None for a null
DictExcludeUnset(listing) ==
    [k \in {f \in ListingFields : listing[f][1] # "unset"} |->
        IF listing[k][1] = "null" THEN None ELSE Some(listing[k][2])]

\* {k: v for k, v in listing.dict(exclude_unset=True).items() if v is not None}
\*   (faulty variant: a null is kept and written)
UpdateDataKeepNull(listing) ==
    LET d == DictExcludeUnset(listing)
    IN  [k \in DOMAIN d |-> IF d[k] = None THEN None ELSE d[k][1]]
UpdateData(listing) ==
    LET d == DictExcludeUnset(listing)
    IN  [k \in {f \in DOMAIN d : d[f] # None} |-> d[k][1]]

\* POST /listings
create_listing(s) ==
    /\ At(s, "create_listing", "start")
    /\ \/ /\ LET id == ListingId(nextId.research_listings + 1)
             IN  /\ research_listings' = DocSet(research_listings, id, req[s].arg.listing)
                 /\ nextId' = [nextId EXCEPT !.research_listings = @ + 1]
                 /\ Finish(s, OK, [listing_id |-> id])
          /\ UNCHANGED <<auth, users, applications, created>>
       \/ /\ Raise(s, BadRequest)
          /\ UNCHANGED <<store, created>>

\* GET /listings
get_all_listings(s) ==
    /\ At(s, "get_all_listings", "start")
    /\ \/ Finish(s, OK, StreamAll(research_listings))
       \/ Raise(s, BadRequest)
    /\ UNCHANGED <<store, created>>

\* GET /listings/{listing_id}
get_listing(s) ==
    /\ At(s, "get_listing", "start")
    /\ LET id == req[s].arg.listing_id
       IN  \/ /\ ~DocExists(research_listings, id)
              /\ Finish(s, NotFound, None)
           \/ /\ DocExists(research_listings, id)
              /\ Finish(s, OK, WithId(id, research_listings[id]))
           \/ Raise(s, Unhandled)
    /\ UNCHANGED <<store, created>>

\* PATCH /listings/{listing_id}
update_listing(s) ==
    LET id == req[s].arg.listing_id
        update_data == UpdateData(req[s].arg.listing)
    IN  \/ /\ At(s, "update_listing", "start")
           /\ \/ /\ ~DocExists(research_listings, id)
                 /\ Finish(s, NotFound, None)
              \/ /\ DocExists(research_listings, id)
                 /\ IF DOMAIN update_data = {}
                    THEN Finish(s, BadRequest, None)
                    ELSE Goto(s, "update")
              \/ Raise(s, Unhandled)
           /\ UNCHANGED <<store, created>>
        \/ /\ At(s, "update_listing", "update")
           \* doc_ref.update raises on a document that is gone, as on any store failure
           /\ \E fails \in BOOLEAN :
                IF fails \/ ~DocExists(research_listings, id)
                THEN /\ Raise(s, Unhandled)
                     /\ UNCHANGED research_listings
                ELSE /\ research_listings' = DocUpdate(research_listings, id, update_data)
                     /\ Finish(s, OK, None)
           /\ UNCHANGED <<auth, users, applications, nextId, created>>

\* `not user_id`: the header is missing (None) or empty
Falsy(user_id) == IF user_id = None THEN TRUE ELSE user_id[1] = ""

\* user_data.get("role") != "professor" is what forbids
\*   (faulty variant: any known role passes)
IsProfessorOrStudent(user_data) == user_data.role \in {"professor", "student"}
IsProfessor(user_data) == user_data.role = "professor"

\* DELETE /listings/{listing_id}
delete_listing(s) ==
    LET id == req[s].arg.listing_id
        user_id == req[s].arg.user_id
    IN  \/ /\ At(s, "delete_listing", "start")
           /\ \/ /\ Falsy(user_id)
                 /\ Finish(s, Unauthorized, None)
              \/ /\ ~Falsy(user_id)
                 /\ \/ /\ ~DocExists(users, user_id[1])
                       /\ Finish(s, NotFound, None)
                    \/ /\ DocExists(users, user_id[1])
                       /\ IF IsProfessor(users[user_id[1]])
                          THEN Goto(s, "listing")
                          ELSE Finish(s, Forbidden, None)
                    \/ Raise(s, Unhandled)
           /\ UNCHANGED <<store, created>>
        \/ /\ At(s, "delete_listing", "listing")
           /\ \/ /\ ~DocExists(research_listings, id)
                 /\ Finish(s, NotFound, None)
              \/ /\ DocExists(research_listings, id)
                 /\ Goto(s, "delete")
              \/ Raise(s, Unhandled)
           /\ UNCHANGED <<store, created>>
        \/ /\ At(s, "delete_listing", "delete")
           /\ \/ /\ research_listings' = DocDelete(research_listings, id)
                 /\ Finish(s, OK, None)
              \/ /\ Raise(s, Unhandled)
                 /\ UNCHANGED research_listings
           /\ UNCHANGED <<auth, users, applications, nextId, created>>

(***************************************************************************)
(* Applications: the model of lines 137-142 and the routes of 145-185.     *)
(***************************************************************************)
StudentIds == {"u1", "u2"}
StudentNames == {"Sam"}
StudentEmails == {"sam@x.edu"}
Statements == {"sop"}

\* ResearchApplication; listing_id is any text, of a listing in the store or not
ResearchApplication ==
    [student_id : StudentIds, listing_id : ListingIds, student_name : StudentNames,
     student_email : StudentEmails, statement_of_purpose : Statements]

\* POST /applications
apply_to_listing(s) ==
    /\ At(s, "apply_to_listing", "start")
    /\ \/ /\ LET id == AppId(nextId.applications + 1)
             IN  /\ applications' = DocSet(applications, id, req[s].arg.application)
                 /\ nextId' = [nextId EXCEPT !.applications = @ + 1]
                 /\ Finish(s, OK, [application_id |-> id])
          /\ UNCHANGED <<auth, users, research_listings, created>>
       \/ /\ Raise(s, BadRequest)
          /\ UNCHANGED <<store, created>>

\* GET /applications/{listing_id}
get_applications_for_listing(s) ==
    /\ At(s, "get_applications_for_listing", "start")
    /\ \/ Finish(s, OK, Where(applications, "listing_id", req[s].arg.listing_id))
       \/ Raise(s, BadRequest)
    /\ UNCHANGED <<store, created>>

\* GET /applications/student/{student_id}
get_student_applications(s) ==
    /\ At(s, "get_student_applications", "start")
    /\ \/ Finish(s, OK, Where(applications, "student_id", req[s].arg.student_id))
       \/ Raise(s, BadRequest)
    /\ UNCHANGED <<store, created>>

\* DELETE /applications/{application_id}
delete_application(s) ==
    LET id == req[s].arg.application_id
    IN  \/ /\ At(s, "delete_application", "start")
           /\ \/ /\ ~DocExists(applications, id)
                 /\ Finish(s, NotFound, None)
              \/ /\ DocExists(applications, id)
                 /\ Goto(s, "delete")
              \/ Raise(s, Unhandled)
           /\ UNCHANGED <<store, created>>
        \/ /\ At(s, "delete_application", "delete")
           /\ \/ /\ applications' = DocDelete(applications, id)
                 /\ Finish(s, OK, None)
              \/ /\ Raise(s, Unhandled)
                 /\ UNCHANGED applications
           /\ UNCHANGED <<auth, users, research_listings, nextId, created>>

(***************************************************************************)
(* The state after start-up: both services empty, no request in flight.    *)
(***************************************************************************)
Init ==
    /\ auth = <<>>
    /\ users = <<>>
    /\ research_listings = <<>>
    /\ applications = <<>>
    /\ nextId = [users |-> 0, research_listings |-> 0, applications |-> 0]
    /\ req = [s \in Slots |-> Idle]
    /\ created = <<>>

(***************************************************************************)
(* Spec: the listing routes create / list / get / update, one request at a *)
(* time, over every payload of the two models.                             *)
(***************************************************************************)
ListingRequests ==
    {[op |-> "create_listing", arg |-> [listing |-> l]] : l \in ResearchListing}
    \cup {[op |-> "get_all_listings", arg |-> None]}
    \cup {[op |-> "get_listing", arg |-> [listing_id |-> i]] : i \in ListingIds}
    \cup {[op |-> "update_listing", arg |-> [listing_id |-> i, listing |-> l]] :
            i \in ListingIds, l \in ResearchListingUpdate}

Next ==
    \/ Call(1, ListingRequests)
    \/ create_listing(1)
    \/ get_all_listings(1)
    \/ get_listing(1)
    \/ update_listing(1)
    \/ Respond(1, FALSE)

Spec == Init /\ [][Next]_vars

(***************************************************************************)
(* SpecSignup: the signup route, one request at a time, over every         *)
(* UserSignup payload.                                                     *)
(***************************************************************************)
SignupRequests == {[op |-> "signup", arg |-> [user |-> u]] : u \in UserSignup}

NextSignup ==
    \/ Call(1, SignupRequests)
    \/ signup(1)
    \/ Respond(1, FALSE)

SpecSignup == Init /\ [][NextSignup]_vars

(***************************************************************************)
(* SpecLifecycle: a listing from creation to deletion, one request at a    *)
(* time: callers of every kind sign up, listings are created, read,        *)
(* retitled and deleted.  The history variable follows the responses.      *)
(***************************************************************************)
\* the user_id header: absent, empty, or naming a caller
Headers == {None, Some("")} \cup {Some(u) : u \in UserIds}

LifecycleUsers ==
    {u \in UserSignup : /\ u.name = "Ann"
                        /\ u.research_interests = <<>>
                        /\ u.email \in {"a@x.edu", "b@x.edu"}}
LifecycleListings ==
    {l \in ResearchListing : l.title = "AI Research" /\ l.tags = <<"ml">>}
LifecycleUpdates ==
    {l \in ResearchListingUpdate :
        /\ l.title = <<"value", "Bio Lab">>
        /\ \A f \in ListingFields \ {"title"} : l[f] = <<"unset">>}

LifecycleRequests ==
    {[op |-> "signup", arg |-> [user |-> u]] : u \in LifecycleUsers}
    \cup {[op |-> "create_listing", arg |-> [listing |-> l]] : l \in LifecycleListings}
    \cup {[op |-> "get_listing", arg |-> [listing_id |-> i]] : i \in ListingIds}
    \cup {[op |-> "update_listing", arg |-> [listing_id |-> i, listing |-> l]] :
            i \in ListingIds, l \in LifecycleUpdates}
    \cup {[op |-> "delete_listing", arg |-> [listing_id |-> i, user_id |-> h]] :
            i \in ListingIds, h \in Headers}

NextLifecycle ==
    \/ Call(1, LifecycleRequests)
    \/ signup(1)
    \/ create_listing(1)
    \/ get_listing(1)
    \/ update_listing(1)
    \/ delete_listing(1)
    \/ Respond(1, TRUE)

SpecLifecycle == Init /\ [][NextLifecycle]_vars

(***************************************************************************)
(* SpecApps: the application routes, one request at a time; listings come  *)
(* into being beside them, so an application's listing_id may or may not   *)
(* name a listing of the store.                                            *)
(***************************************************************************)
AppsListings ==
    {l \in ResearchListing :
        l.title = "AI Research" /\ l.tags = <<"ml">> /\ l.professor_id = "u1"}

AppsRequests ==
    {[op |-> "create_listing", arg |-> [listing |-> l]] : l \in AppsListings}
    \cup {[op |-> "apply_to_listing", arg |-> [application |-> a]] :
            a \in ResearchApplication}
    \cup {[op |-> "get_applications_for_listing", arg |-> [listing_id |-> i]] :
            i \in ListingIds}
    \cup {[op |-> "get_student_applications", arg |-> [student_id |-> i]] :
            i \in StudentIds}
    \cup {[op |-> "delete_application", arg |-> [application_id |-> i]] : i \in AppIds}

NextApps ==
    \/ Call(1, AppsRequests)
    \/ create_listing(1)
    \/ apply_to_listing(1)
    \/ get_applications_for_listing(1)
    \/ get_student_applications(1)
    \/ delete_application(1)
    \/ Respond(1, FALSE)

SpecApps == Init /\ [][NextApps]_vars

(***************************************************************************)
(* SpecConc: requests handled concurrently (two in flight), their store    *)
(* calls interleaved in every order: a professor signs up, listings and    *)
(* applications are created and deleted.                                   *)
(***************************************************************************)
ConcUsers ==
    {u \in LifecycleUsers : u.email = "a@x.edu" /\ u.role = "professor"}
ConcApplications == {a \in ResearchApplication : a.student_id = "u1"}

ConcRequests ==
    {[op |-> "signup", arg |-> [user |-> u]] : u \in ConcUsers}
    \cup {[op |-> "create_listing", arg |-> [listing |-> l]] : l \in AppsListings}
    \cup {[op |-> "apply_to_listing", arg |-> [application |-> a]] :
            a \in ConcApplications}
    \cup {[op |-> "delete_listing",
            arg |-> [listing_id |-> ListingId(1), user_id |-> Some(Uid(1))]]}
    \cup {[op |-> "delete_application", arg |-> [application_id |-> AppId(1)]]}

NextConc ==
    \E s \in Slots :
        \/ Call(s, ConcRequests)
        \/ signup(s)
        \/ create_listing(s)
        \/ apply_to_listing(s)
        \/ delete_listing(s)
        \/ delete_application(s)
        \/ Respond(s, FALSE)

SpecConc == Init /\ [][NextConc]_vars

(***************************************************************************)
(* Properties.  In the one-request-at-a-time specifications the request is *)
(* in slot 1, and req[1].pre is the state of the services when it came in. *)
(***************************************************************************)
Done(op) == req[1].op = op /\ req[1].pc = "done"

\* collection c, less document id
Without(c, id) == [x \in DOMAIN c \ {id} |-> c[x]]

\* C1: DeleteListing, when no store call fails, returns success iff the user_id
\* header carries a value, a User document with that identifier exists, its role
\* is exactly "professor" and the listing exists; otherwise it answers 401 (no
\* header value), 404 (unknown caller), 403 (not a professor) or 404 (unknown
\* listing), in that order.  A success removes exactly that listing; every other
\* outcome leaves research_listings as it was.  The listing's professor_id plays
\* no part.
DeleteListingContract ==
    Done("delete_listing") =>
        LET r == req[1]
            h == r.arg.user_id
            L == r.arg.listing_id
            P == r.pre
            supplied == h # None /\ h[1] # ""
            known == supplied /\ h[1] \in DOMAIN P.users
            professor == known /\ P.users[h[1]].role = "professor"
            exists == L \in DOMAIN P.research_listings
        IN  /\ ~r.raised =>
                /\ r.status = OK <=> (supplied /\ known /\ professor /\ exists)
                /\ ~supplied => r.status = Unauthorized
                /\ (supplied /\ ~known) => r.status = NotFound
                /\ (known /\ ~professor) => r.status = Forbidden
                /\ (professor /\ ~exists) => r.status = NotFound
            /\ r.status = OK => research_listings = Without(P.research_listings, L)
            /\ r.status # OK => research_listings = P.research_listings

\* a professor has deleted a listing whose professor_id names somebody else
DeleteListingByNonOwner ==
    /\ Done("delete_listing")
    /\ req[1].status = OK
    /\ req[1].pre.research_listings[req[1].arg.listing_id].professor_id
          # req[1].arg.user_id[1]

\* the body of an update sets no field to a value: each is left out or null
EffectiveEmpty(listing) == \A f \in ListingFields : listing[f][1] \in {"unset", "null"}

\* C2, as claimed: an UpdateListing whose effective field set is empty answers 400
\* ("no valid fields") whatever the listing_id and the store, and writes nothing.
UpdateEmptyAlwaysBadRequest ==
    (Done("update_listing") /\ EffectiveEmpty(req[1].arg.listing) /\ ~req[1].raised) =>
        /\ req[1].status = BadRequest
        /\ Store = req[1].pre

\* C2, amended: an UpdateListing whose effective field set is empty never writes
\* to the store; when no store call fails it answers 400 ("no valid fields") if
\* the listing exists and 404 if it does not.
UpdateEmptyIsRejected ==
    (Done("update_listing") /\ EffectiveEmpty(req[1].arg.listing)) =>
        /\ ~req[1].raised =>
              req[1].status =
                  IF req[1].arg.listing_id \in DOMAIN req[1].pre.research_listings
                  THEN BadRequest ELSE NotFound
        /\ Store = req[1].pre

\* an update of an existing listing whose fields are all null or left out, one null
UpdateEmptyRejected400 ==
    /\ Done("update_listing")
    /\ EffectiveEmpty(req[1].arg.listing)
    /\ req[1].arg.listing.title[1] = "null"
    /\ req[1].arg.listing.tags[1] = "unset"
    /\ req[1].arg.listing_id \in DOMAIN research_listings
    /\ req[1].status = BadRequest

\* C3: a successful UpdateListing writes exactly the supplied non-null fields:
\* each takes the supplied value, every other field of the listing keeps its
\* prior value, and no other listing, user, account or application changes.
UpdateMergesNonNull ==
    (Done("update_listing") /\ req[1].status = OK) =>
        LET L == req[1].arg.listing_id
            l == req[1].arg.listing
            P == req[1].pre
        IN  /\ L \in DOMAIN P.research_listings
            /\ DOMAIN research_listings = DOMAIN P.research_listings
            /\ \A x \in DOMAIN research_listings \ {L} :
                  research_listings[x] = P.research_listings[x]
            /\ DOMAIN research_listings[L] = ListingFields
            /\ \A f \in ListingFields :
                  research_listings[L][f] =
                      IF l[f][1] = "value" THEN l[f][2] ELSE P.research_listings[L][f]
            /\ users = P.users /\ auth = P.auth /\ applications = P.applications

\* an update that changed the title, sent tags as null, emptied nothing else,
\* beside a second listing
UpdateChangedOneField ==
    /\ Done("update_listing")
    /\ req[1].status = OK
    /\ Cardinality(DOMAIN research_listings) = 2
    /\ LET L == req[1].arg.listing_id
           l == req[1].arg.listing
       IN  /\ l.title[1] = "value"
           /\ l.title[2] # req[1].pre.research_listings[L].title
           /\ l.tags[1] = "null"
           /\ req[1].pre.research_listings[L].tags = <<"ml">>
           /\ l.professor_id[1] = "unset"

\* C4: when the store answers, ListApplicationsForListing(X) returns exactly the
\* applications now in the store whose listing_id is X, each with its fields and
\* its identifier: none of another listing, none that was deleted, none missing,
\* whether or not a listing X exists.
ListApplicationsExact ==
    (Done("get_applications_for_listing") /\ ~req[1].raised) =>
        LET X == req[1].arg.listing_id
            body == req[1].body
        IN  /\ req[1].status = OK
            /\ \A b \in body :
                  /\ b.id \in DOMAIN applications
                  /\ applications[b.id].listing_id = X
                  /\ DOMAIN b = DOMAIN applications[b.id] \cup {"id"}
                  /\ \A f \in DOMAIN applications[b.id] : b[f] = applications[b.id][f]
            /\ \A a \in DOMAIN applications :
                  applications[a].listing_id = X => \E b \in body : b.id = a

\* a listing of applications that returned one, beside an application of another
\* listing and a deleted one, for a listing_id that names no listing
ListApplicationsSelective ==
    /\ Done("get_applications_for_listing")
    /\ req[1].status = OK
    /\ req[1].body # {}
    /\ \E a \in DOMAIN applications :
          applications[a].listing_id # req[1].arg.listing_id
    /\ nextId.applications > Cardinality(DOMAIN applications)
    /\ req[1].arg.listing_id \notin DOMAIN research_listings

\* C5: when the store answers, DeleteApplication of an identifier not in the
\* applications collection answers 404 and of one in it answers success, asking
\* for no caller; a success removes exactly that application, any other outcome
\* leaves the collection as it was, and no other collection changes.
DeleteApplicationContract ==
    Done("delete_application") =>
        LET A == req[1].arg.application_id
            P == req[1].pre
        IN  /\ ~req[1].raised =>
                req[1].status = IF A \in DOMAIN P.applications THEN OK ELSE NotFound
            /\ req[1].status = OK => applications = Without(P.applications, A)
            /\ req[1].status # OK => applications = P.applications
            /\ users = P.users /\ auth = P.auth
            /\ research_listings = P.research_listings

\* an application deleted with no user in the system, another application left
DeleteApplicationUnchecked ==
    /\ Done("delete_application")
    /\ req[1].status = OK
    /\ users = <<>>
    /\ applications # <<>>

\* C6: a signup that returns success returns the uid the identity provider
\* issued for it; that uid is the key of the one User document created, which
\* holds name, email, role and research_interests of the request and no password.
SignupReturnsDocumentKey ==
    (Done("signup") /\ req[1].status = OK) =>
        LET u == req[1].body.uid
            user == req[1].arg.user
            P == req[1].pre
        IN  /\ u \in DOMAIN auth \ DOMAIN P.auth
            /\ auth[u] = user.email
            /\ DOMAIN users = DOMAIN P.users \cup {u}
            /\ u \notin DOMAIN P.users
            /\ \A x \in DOMAIN P.users : users[x] = P.users[x]
            /\ DOMAIN users[u] = {"name", "email", "role", "research_interests"}
            /\ users[u].name = user.name
            /\ users[u].email = user.email
            /\ users[u].role = user.role
            /\ users[u].research_interests = user.research_interests

\* a second user has signed up, with interests and another name than the first
SignupSucceededTwice ==
    /\ Done("signup")
    /\ req[1].status = OK
    /\ req[1].arg.user.research_interests # <<>>
    /\ \E x \in DOMAIN req[1].pre.users :
          req[1].pre.users[x].name # req[1].arg.user.name

\* C7: a GetListing(L) that the store answers, sent by the client that created L
\* and has sent no update or delete of L since, returns the fields of the
\* payload it created L with plus "id" equal to L; a GetListing of an identifier
\* absent from the store answers 404.
CreateGetRoundTrip ==
    (Done("get_listing") /\ ~req[1].raised) =>
        LET L == req[1].arg.listing_id
        IN  /\ L \in DOMAIN created =>
                /\ req[1].status = OK
                /\ DOMAIN req[1].body = ListingFields \cup {"id"}
                /\ req[1].body.id = L
                /\ \A f \in ListingFields : req[1].body[f] = created[L][f]
            /\ L \notin DOMAIN req[1].pre.research_listings =>
                req[1].status = NotFound

\* the second listing read back after the first was retitled
RoundTripSecondListing ==
    /\ Done("get_listing")
    /\ req[1].status = OK
    /\ req[1].arg.listing_id \in DOMAIN created
    /\ \E x \in DOMAIN research_listings \ DOMAIN created :
          research_listings[x].title = "Bio Lab"

\* C8, as claimed: every operation ends with success or one of the four mapped
\* error kinds (400, 404, 401, 403), store failures included.
EveryFailureIsMapped ==
    \A s \in Slots :
        (req[s] # Idle /\ req[s].pc = "done") =>
            req[s].status \in {OK, BadRequest, NotFound, Unauthorized, Forbidden}

\* C9: a signup whose account creation succeeded and whose profile write failed
\* answers 400 and leaves the account in place with no User document for its
\* uid; and every User document's identifier is that of an existing account.
SignupOrphansAccount ==
    /\ (Done("signup") /\ req[1].uid # "" /\ req[1].raised) =>
          /\ req[1].status = BadRequest
          /\ req[1].uid \in DOMAIN auth
          /\ req[1].uid \notin DOMAIN users
          /\ users = req[1].pre.users
    /\ DOMAIN users \subseteq DOMAIN auth

\* the profile write of a signup has failed after its account was created
SignupProfileWriteFailed ==
    /\ Done("signup")
    /\ req[1].uid # ""
    /\ req[1].raised
    /\ req[1].uid \in DOMAIN auth

\* C10, as claimed: of the delete requests for one listing (or one application)
\* identifier at most one returns success, however the requests interleave.
DeleteTarget(r) ==
    IF r.op = "delete_listing" THEN r.arg.listing_id ELSE r.arg.application_id

DeleteSucceedsOnce ==
    \A s, t \in Slots :
        (/\ s # t
         /\ req[s].op \in {"delete_listing", "delete_application"}
         /\ req[t].op = req[s].op
         /\ req[s].pc = "done" /\ req[t].pc = "done"
         /\ DeleteTarget(req[s]) = DeleteTarget(req[t]))
        => ~(req[s].status = OK /\ req[t].status = OK)
====
